---- MODULE Spec2Model ----
(***************************************************************************)
(* The Plinko game-session engine of main.py: the three request handlers   *)
(* init_session, drop_ball and cashout running concurrently against the    *)
(* game_sessions / game_rounds tables of one PostgreSQL database           *)
(* (READ COMMITTED, one transaction per request, row lock taken by         *)
(* SELECT ... FOR UPDATE and released by commit or rollback).              *)
(*                                                                         *)
(* Amounts are fixed-point integers counting 1/Unit of a currency unit;    *)
(* probabilities and the uniform sample count 1/100000.                    *)
(*                                                                         *)
(* Taken as given: every request works on a connection of its own (the     *)
(* pool hands a connection to one request at a time), rows are read by     *)
(* column name as the handlers write it, and putconn rolls back a          *)
(* transaction that is still open, as psycopg2's pool does.  The table     *)
(* definitions are not part of main.py; the uniqueness of                  *)
(* game_sessions.user_id is taken from the design document.                *)
(***************************************************************************)
EXTENDS Integers, Sequences, FiniteSets, TLC

\* ---------------------------------------------------------------- bounds
\* rounds the model lets all sessions together play
MaxRounds == 2
\* amounts count 1/Unit of a currency unit
Unit == 2

\* the users with an account, and the requests the server works on at a time
Users == {1, 2}
Procs == {1, 2}
\* session tokens: the token of user u is u, 0 is an unknown or expired token
Tokens == Users \cup {0}
\* the values of random.random(), in [0, 1), on the grid of 1/100000
RValues == 0 .. 99999
\* requested stakes: below MIN_BET, in range, above MAX_BET
StakeReqs == {Unit \div 2, 3 * Unit, 100 * Unit}
\* uniform samples handed to pick_multiplier (they draw the multipliers 0 and 2)
RSamples == {10000, 90000}

\* ------------------------------------------------------ program constants
INITIAL_BALANCE == 5 * Unit
MIN_BET == 1 * Unit
MAX_BET == 5 * Unit

MULTIPLIER_DISTRIBUTION ==
    << [m |-> 0,    p |-> 65160],
       [m |-> 1,    p |-> 18000],
       [m |-> 2,    p |-> 14000],
       [m |-> 5,    p |-> 1500],
       [m |-> 10,   p |-> 800],
       [m |-> 25,   p |-> 400],
       [m |-> 50,   p |-> 100],
       [m |-> 100,  p |-> 30],
       [m |-> 1000, p |-> 10] >>

\* ---------------------------------------------------------------- state
VARIABLES
    sessions,    \* committed game_sessions row of each user
    rounds,      \* committed game_rounds rows of each user's session, in insertion order
    lockHolder,  \* request holding the row lock of a user's session row, 0 if none
    pc,          \* position of each request in its handler
    op,          \* handler a request runs: "init", "drop", "cashout"
    user,        \* user the request's token resolved to, 0 if none
    reqStake,    \* body.stake of a drop request
    stake,       \* the local stake of drop_ball
    session,     \* row a request fetched (gs / session), NoRow if none
    multiplier,  \* the local multiplier of drop_ball
    updated,     \* row version the request's transaction wrote, not yet committed
    newRound,    \* round the request's transaction inserted, not yet committed
    res,         \* the response or error the handler produced
    auth_sessions, \* tokens of auth_sessions that are not expired (written by login only)
    draw_r,      \* the local r of a call of pick_multiplier on its own
    draw_m       \* what that call returned, -1 before it returns

vars == << sessions, rounds, lockHolder, pc, op, user, reqStake, stake,
           session, multiplier, updated, newRound, res, auth_sessions,
           draw_r, draw_m >>

NoRow == [exists |-> FALSE, balance |-> 0, balls_played |-> 0,
          cashed_out |-> FALSE, finished |-> FALSE]

NoRound == [exists |-> FALSE, stake |-> 0, multiplier |-> 0, win_amount |-> 0]

NoRes == [kind |-> "none", balance |-> 0, balls_played |-> 0,
          cashed_out |-> FALSE, finished |-> FALSE, multiplier |-> 0, stake |-> 0]

\* an HTTPException or an unhandled exception: no body fields
Error(k) == [NoRes EXCEPT !.kind = k]

\* ------------------------------------------------------------- helpers
Min(a, b) == IF a <= b THEN a ELSE b
Max(a, b) == IF a >= b THEN a ELSE b

\* the clamp without its lower bound
ClampStake_NoFloor(s) == Min(MAX_BET, s)

\* stake = max(MIN_BET, min(MAX_BET, float(body.stake)))
ClampStake(s) == Max(MIN_BET, Min(MAX_BET, s))

\* the walk comparing with < : an entry is missed when r equals its
\* cumulative probability
RECURSIVE walk_Strict(_, _, _)
walk_Strict(r, i, acc) ==
    IF i > Len(MULTIPLIER_DISTRIBUTION)
    THEN MULTIPLIER_DISTRIBUTION[Len(MULTIPLIER_DISTRIBUTION)].m
    ELSE LET a == acc + MULTIPLIER_DISTRIBUTION[i].p
         IN  IF r < a THEN MULTIPLIER_DISTRIBUTION[i].m ELSE walk_Strict(r, i + 1, a)

\* for item in MULTIPLIER_DISTRIBUTION: acc += item["p"]; if r <= acc: return
\* item["m"]; after the loop the last entry is returned
RECURSIVE walk(_, _, _)
walk(r, i, acc) ==
    IF i > Len(MULTIPLIER_DISTRIBUTION)
    THEN MULTIPLIER_DISTRIBUTION[Len(MULTIPLIER_DISTRIBUTION)].m
    ELSE LET a == acc + MULTIPLIER_DISTRIBUTION[i].p
         IN  IF r <= a THEN MULTIPLIER_DISTRIBUTION[i].m ELSE walk(r, i + 1, a)

pick_multiplier(r) == walk(r, 1, 0)

\* the user of an unexpired auth_sessions row with this token, None (0) without one
get_user_by_session(tok) == IF tok \in auth_sessions THEN tok ELSE 0

\* game_sessions.user_id is unique: an INSERT for a user waits for an
\* uncommitted row of the same user and fails once one is committed
InsertWaits(p, u) ==
    \E q \in Procs \ {p} : user[q] = u /\ op[q] = "init" /\ pc[q] = "inserted"

UniqueViolated(u) == sessions[u].exists

\* the new row of INSERT INTO game_sessions (user_id, session_token, balance)
NewSessionRow == [exists |-> TRUE, balance |-> INITIAL_BALANCE, balls_played |-> 0,
                  cashed_out |-> FALSE, finished |-> FALSE]

\* the same SELECT without FOR UPDATE: a plain read that takes no lock
get_game_session_no_lock(p, u) ==
    /\ session' = [session EXCEPT ![p] = sessions[u]]
    /\ lockHolder' = lockHolder

\* the same SELECT locking the whole table: it waits for every row lock
get_game_session_table_lock(p, u) ==
    /\ \A v \in Users : lockHolder[v] = 0
    /\ session' = [session EXCEPT ![p] = sessions[u]]
    /\ lockHolder' = [lockHolder EXCEPT ![u] = IF sessions[u].exists THEN p ELSE 0]

\* SELECT * FROM game_sessions WHERE user_id = %s FOR UPDATE: waits for the
\* row lock, returns the latest committed row and keeps the lock
get_game_session_for_update(p, u) ==
    /\ lockHolder[u] = 0
    /\ session' = [session EXCEPT ![p] = sessions[u]]
    /\ lockHolder' = [lockHolder EXCEPT ![u] = IF sessions[u].exists THEN p ELSE 0]

\* the missing-session check left out
NoSession_Skip(s) == FALSE

\* if not session (drop_ball, cashout)
NoSession(s) == ~s.exists

\* the terminal check left out
IsTerminal_Never(s) == FALSE

\* if session["finished"] or session["cashed_out"]
IsTerminal(s) == s.finished \/ s.cashed_out

\* the balance check left out
Insufficient_Never(balance, stk) == FALSE

\* the comparison off by one: a stake equal to the balance is refused
Insufficient_OrEqual(balance, stk) == balance <= stk

\* if balance < stake
Insufficient(balance, stk) == balance < stk

\* the win credited without the stake debited
NewBalance_NoDebit(balance, stk, m) == balance + stk * m

\* balance -= stake; win_amount = stake * multiplier; balance += win_amount
NewBalance(balance, stk, m) == (balance - stk) + stk * m

\* rounds committed or about to be written by a drop that passed its checks
RoundsInPlay ==
    Len(rounds[1]) + Len(rounds[2]) + Cardinality({q \in Procs : op[q] = "drop" /\ pc[q] \in {"locked", "updated", "inserted"}})

\* an UPDATE of the row takes its row lock (already held after FOR UPDATE)
UpdateLocks(p, u) ==
    /\ lockHolder[u] \in {0, p}
    /\ lockHolder' = [lockHolder EXCEPT ![u] = p]

\* commit and rollback release the row locks of the transaction
Released(p) == [u \in Users |-> IF lockHolder[u] = p THEN 0 ELSE lockHolder[u]]

\* ------------------------------------------------------------------ Init
Init ==
    /\ sessions = [u \in Users |-> NoRow]
    /\ rounds = [u \in Users |-> << >>]
    /\ lockHolder = [u \in Users |-> 0]
    /\ pc = [p \in Procs |-> "idle"]
    /\ op = [p \in Procs |-> "none"]
    /\ user = [p \in Procs |-> 0]
    /\ reqStake = [p \in Procs |-> 0]
    /\ stake = [p \in Procs |-> 0]
    /\ session = [p \in Procs |-> NoRow]
    /\ multiplier = [p \in Procs |-> 0]
    /\ updated = [p \in Procs |-> NoRow]
    /\ newRound = [p \in Procs |-> NoRound]
    /\ res = [p \in Procs |-> NoRes]
    /\ auth_sessions = {1}   \* user 1 has logged in
    /\ draw_r = 0
    /\ draw_m = -1

\* ------------------------------------------------------- request arrival
\* a handler is entered: the connection is taken from the pool and
\* get_user_by_session resolves the token (401 when it does not)
Enter(p, o, tok, s) ==
    /\ pc[p] = "idle"
    /\ op' = [op EXCEPT ![p] = o]
    /\ user' = [user EXCEPT ![p] = get_user_by_session(tok)]
    /\ reqStake' = [reqStake EXCEPT ![p] = s]
    /\ stake' = [stake EXCEPT ![p] = IF o = "drop" THEN ClampStake(s) ELSE 0]
    /\ IF get_user_by_session(tok) = 0
       THEN /\ pc' = [pc EXCEPT ![p] = "ret"]
            /\ res' = [res EXCEPT ![p] = Error("AuthInvalid")]
       ELSE /\ pc' = [pc EXCEPT ![p] = "start"]
            /\ res' = res
    /\ UNCHANGED << sessions, rounds, lockHolder, session, multiplier, updated, newRound, auth_sessions, draw_r, draw_m >>

InitSessionCall(p) == \E tok \in Tokens : Enter(p, "init", tok, 0)

DropBallCall(p) == \E tok \in Tokens, s \in StakeReqs : Enter(p, "drop", tok, s)

CashoutCall(p) == \E tok \in Tokens : Enter(p, "cashout", tok, 0)

\* ---------------------------------------------------------- init_session
\* the same handler resetting a session it finds
InitSelect_Reset(p) ==
    /\ pc[p] = "start" /\ op[p] = "init"
    /\ session' = [session EXCEPT ![p] = sessions[user[p]]]
    /\ IF sessions[user[p]].exists
       THEN /\ pc' = [pc EXCEPT ![p] = "ret"]
            /\ sessions' = [sessions EXCEPT ![user[p]] = NewSessionRow]
            /\ res' = [res EXCEPT ![p] =
                   [NoRes EXCEPT !.kind = "ok", !.balance = INITIAL_BALANCE]]
       ELSE /\ pc' = [pc EXCEPT ![p] = "selected"]
            /\ sessions' = sessions
            /\ res' = res
    /\ UNCHANGED << rounds, lockHolder, op, user, reqStake, stake,
                    multiplier, updated, newRound, auth_sessions, draw_r, draw_m >>

\* SELECT * FROM game_sessions WHERE user_id = %s (no lock); an existing row
\* is returned as it is
InitSelect(p) ==
    /\ pc[p] = "start" /\ op[p] = "init"
    /\ session' = [session EXCEPT ![p] = sessions[user[p]]]
    /\ IF sessions[user[p]].exists
       THEN /\ pc' = [pc EXCEPT ![p] = "ret"]
            /\ res' = [res EXCEPT ![p] =
                   [NoRes EXCEPT !.kind = "ok",
                                 !.balance = sessions[user[p]].balance,
                                 !.balls_played = sessions[user[p]].balls_played,
                                 !.cashed_out = sessions[user[p]].cashed_out,
                                 !.finished = sessions[user[p]].finished]]
       ELSE /\ pc' = [pc EXCEPT ![p] = "selected"]
            /\ res' = res
    /\ UNCHANGED << sessions, rounds, lockHolder, op, user, reqStake, stake,
                    multiplier, updated, newRound, auth_sessions, draw_r, draw_m >>

\* INSERT INTO game_sessions ... RETURNING *: a row committed since the
\* SELECT makes the INSERT raise a unique violation, which nothing catches
InitInsert(p) ==
    /\ pc[p] = "selected" /\ op[p] = "init"
    /\ ~InsertWaits(p, user[p])
    /\ IF UniqueViolated(user[p])
       THEN /\ pc' = [pc EXCEPT ![p] = "ret"]
            /\ res' = [res EXCEPT ![p] = Error("UniqueViolation")]
            /\ updated' = updated
       ELSE /\ pc' = [pc EXCEPT ![p] = "inserted"]
            /\ updated' = [updated EXCEPT ![p] = NewSessionRow]
            /\ res' = res
    /\ UNCHANGED << sessions, rounds, lockHolder, op, user, reqStake, stake,
                    session, multiplier, newRound, auth_sessions, draw_r, draw_m >>

\* conn.commit() and the InitSessionOut built from new_gs
InitCommit(p) ==
    /\ pc[p] = "inserted" /\ op[p] = "init"
    /\ sessions' = [sessions EXCEPT ![user[p]] = updated[p]]
    /\ lockHolder' = Released(p)
    /\ pc' = [pc EXCEPT ![p] = "ret"]
    /\ res' = [res EXCEPT ![p] =
           [NoRes EXCEPT !.kind = "ok",
                         !.balance = updated[p].balance,
                         !.balls_played = updated[p].balls_played,
                         !.cashed_out = updated[p].cashed_out,
                         !.finished = updated[p].finished]]
    /\ UNCHANGED << rounds, op, user, reqStake, stake, session, multiplier,
                    updated, newRound, auth_sessions, draw_r, draw_m >>

\* ------------------------------------------------------------- drop_ball
\* the same checks with the balance check moved before the terminal check
DropLock_BalanceFirst(p) ==
    /\ pc[p] = "start" /\ op[p] = "drop"
    /\ get_game_session_for_update(p, user[p])
    /\ LET s == sessions[user[p]] IN
       IF NoSession(s)
       THEN /\ pc' = [pc EXCEPT ![p] = "ret"]
            /\ res' = [res EXCEPT ![p] = Error("SessionNotFound")]
       ELSE IF Insufficient(s.balance, stake[p])
       THEN /\ pc' = [pc EXCEPT ![p] = "ret"]
            /\ res' = [res EXCEPT ![p] = Error("InsufficientBalance")]
       ELSE IF IsTerminal(s)
       THEN /\ pc' = [pc EXCEPT ![p] = "ret"]
            /\ res' = [res EXCEPT ![p] = Error("SessionTerminal")]
       ELSE /\ RoundsInPlay < MaxRounds
            /\ pc' = [pc EXCEPT ![p] = "locked"]
            /\ res' = res
    /\ UNCHANGED << sessions, rounds, op, user, reqStake, stake, multiplier,
                    updated, newRound, auth_sessions, draw_r, draw_m >>

\* get_game_session_for_update and the three checks that follow it
DropLock(p) ==
    /\ pc[p] = "start" /\ op[p] = "drop"
    /\ get_game_session_for_update(p, user[p])
    /\ LET s == sessions[user[p]] IN
       IF NoSession(s)
       THEN /\ pc' = [pc EXCEPT ![p] = "ret"]
            /\ res' = [res EXCEPT ![p] = Error("SessionNotFound")]
       ELSE IF IsTerminal(s)
       THEN /\ pc' = [pc EXCEPT ![p] = "ret"]
            /\ res' = [res EXCEPT ![p] = Error("SessionTerminal")]
       ELSE IF Insufficient(s.balance, stake[p])
       THEN /\ pc' = [pc EXCEPT ![p] = "ret"]
            /\ res' = [res EXCEPT ![p] = Error("InsufficientBalance")]
       ELSE /\ RoundsInPlay < MaxRounds
            /\ pc' = [pc EXCEPT ![p] = "locked"]
            /\ res' = res
    /\ UNCHANGED << sessions, rounds, op, user, reqStake, stake, multiplier,
                    updated, newRound, auth_sessions, draw_r, draw_m >>

\* the UPDATE also finishing a session whose balance no longer covers MIN_BET
DropUpdate_FinishWhenBroke(p) ==
    /\ pc[p] = "locked" /\ op[p] = "drop"
    /\ UpdateLocks(p, user[p])
    /\ \E r \in RSamples :
         LET m == pick_multiplier(r)
             balance == NewBalance(session[p].balance, stake[p], m)
             balls_played == session[p].balls_played + 1
         IN  /\ multiplier' = [multiplier EXCEPT ![p] = m]
             /\ updated' = [updated EXCEPT ![p] =
                    [sessions[user[p]] EXCEPT !.balance = balance,
                                              !.balls_played = balls_played,
                                              !.finished = balance < MIN_BET]]
    /\ pc' = [pc EXCEPT ![p] = "updated"]
    /\ UNCHANGED << sessions, rounds, op, user, reqStake, stake, session,
                    newRound, res, auth_sessions, draw_r, draw_m >>

\* the UPDATE on a connection in autocommit mode: written at once
DropUpdate_Autocommit(p) ==
    /\ pc[p] = "locked" /\ op[p] = "drop"
    /\ lockHolder[user[p]] \in {0, p}
    /\ \E r \in RSamples :
         LET m == pick_multiplier(r)
             balance == NewBalance(session[p].balance, stake[p], m)
             balls_played == session[p].balls_played + 1
             row == [sessions[user[p]] EXCEPT !.balance = balance,
                                              !.balls_played = balls_played]
         IN  /\ multiplier' = [multiplier EXCEPT ![p] = m]
             /\ updated' = [updated EXCEPT ![p] = row]
             /\ sessions' = [sessions EXCEPT ![user[p]] = row]
    /\ pc' = [pc EXCEPT ![p] = "updated"]
    /\ UNCHANGED << rounds, lockHolder, op, user, reqStake, stake, session,
                    newRound, res, auth_sessions, draw_r, draw_m >>

\* the balance arithmetic, the draw and UPDATE game_sessions ... RETURNING *
DropUpdate(p) ==
    /\ pc[p] = "locked" /\ op[p] = "drop"
    /\ UpdateLocks(p, user[p])
    /\ \E r \in RSamples :
         LET m == pick_multiplier(r)
             balance == NewBalance(session[p].balance, stake[p], m)
             balls_played == session[p].balls_played + 1
         IN  /\ multiplier' = [multiplier EXCEPT ![p] = m]
             /\ updated' = [updated EXCEPT ![p] =
                    [sessions[user[p]] EXCEPT !.balance = balance,
                                              !.balls_played = balls_played]]
    /\ pc' = [pc EXCEPT ![p] = "updated"]
    /\ UNCHANGED << sessions, rounds, op, user, reqStake, stake, session,
                    newRound, res, auth_sessions, draw_r, draw_m >>

\* the INSERT recording the stake as requested, not as clamped
DropInsert_ReqStake(p) ==
    /\ pc[p] = "updated" /\ op[p] = "drop"
    /\ newRound' = [newRound EXCEPT ![p] =
           [exists |-> TRUE, stake |-> reqStake[p], multiplier |-> multiplier[p],
            win_amount |-> reqStake[p] * multiplier[p]]]
    /\ pc' = [pc EXCEPT ![p] = "inserted"]
    /\ UNCHANGED << sessions, rounds, lockHolder, op, user, reqStake, stake,
                    session, multiplier, updated, res, auth_sessions, draw_r, draw_m >>

\* INSERT INTO game_rounds (session_id, stake, multiplier, win_amount)
DropInsert(p) ==
    /\ pc[p] = "updated" /\ op[p] = "drop"
    /\ newRound' = [newRound EXCEPT ![p] =
           [exists |-> TRUE, stake |-> stake[p], multiplier |-> multiplier[p],
            win_amount |-> stake[p] * multiplier[p]]]
    /\ pc' = [pc EXCEPT ![p] = "inserted"]
    /\ UNCHANGED << sessions, rounds, lockHolder, op, user, reqStake, stake,
                    session, multiplier, updated, res, auth_sessions, draw_r, draw_m >>

\* conn.commit() and the DropOut built from updated
DropCommit(p) ==
    /\ pc[p] = "inserted" /\ op[p] = "drop"
    /\ sessions' = [sessions EXCEPT ![user[p]] = updated[p]]
    /\ rounds' = [rounds EXCEPT ![user[p]] = Append(@, newRound[p])]
    /\ lockHolder' = Released(p)
    /\ pc' = [pc EXCEPT ![p] = "ret"]
    /\ res' = [res EXCEPT ![p] =
           [kind |-> "ok",
            balance |-> updated[p].balance,
            balls_played |-> updated[p].balls_played,
            cashed_out |-> updated[p].cashed_out,
            finished |-> updated[p].finished,
            multiplier |-> multiplier[p],
            stake |-> stake[p]]]
    /\ UNCHANGED << op, user, reqStake, stake, session, multiplier, updated, newRound, auth_sessions, draw_r, draw_m >>

\* --------------------------------------------------------------- cashout
\* get_game_session_for_update, the not-found check and the idempotent return
CashLock(p) ==
    /\ pc[p] = "start" /\ op[p] = "cashout"
    /\ get_game_session_for_update(p, user[p])
    /\ LET s == sessions[user[p]] IN
       IF NoSession(s)
       THEN /\ pc' = [pc EXCEPT ![p] = "ret"]
            /\ res' = [res EXCEPT ![p] = Error("SessionNotFound")]
       ELSE IF s.cashed_out
       THEN /\ pc' = [pc EXCEPT ![p] = "ret"]
            /\ res' = [res EXCEPT ![p] =
                   [NoRes EXCEPT !.kind = "ok",
                                 !.balance = s.balance,
                                 !.cashed_out = TRUE,
                                 !.finished = s.finished]]
       ELSE /\ pc' = [pc EXCEPT ![p] = "locked"]
            /\ res' = res
    /\ UNCHANGED << sessions, rounds, op, user, reqStake, stake, multiplier,
                    updated, newRound, auth_sessions, draw_r, draw_m >>

\* the UPDATE setting cashed_out and forgetting finished
CashUpdate_OnlyCashedOut(p) ==
    /\ pc[p] = "locked" /\ op[p] = "cashout"
    /\ UpdateLocks(p, user[p])
    /\ updated' = [updated EXCEPT ![p] =
           [sessions[user[p]] EXCEPT !.cashed_out = TRUE]]
    /\ pc' = [pc EXCEPT ![p] = "updated"]
    /\ UNCHANGED << sessions, rounds, op, user, reqStake, stake, session,
                    multiplier, newRound, res, auth_sessions, draw_r, draw_m >>

\* UPDATE game_sessions SET cashed_out = TRUE, finished = TRUE ... RETURNING *
CashUpdate(p) ==
    /\ pc[p] = "locked" /\ op[p] = "cashout"
    /\ UpdateLocks(p, user[p])
    /\ updated' = [updated EXCEPT ![p] =
           [sessions[user[p]] EXCEPT !.cashed_out = TRUE, !.finished = TRUE]]
    /\ pc' = [pc EXCEPT ![p] = "updated"]
    /\ UNCHANGED << sessions, rounds, op, user, reqStake, stake, session,
                    multiplier, newRound, res, auth_sessions, draw_r, draw_m >>

\* conn.commit() and the CashoutOut built from updated
CashCommit(p) ==
    /\ pc[p] = "updated" /\ op[p] = "cashout"
    /\ sessions' = [sessions EXCEPT ![user[p]] = updated[p]]
    /\ lockHolder' = Released(p)
    /\ pc' = [pc EXCEPT ![p] = "ret"]
    /\ res' = [res EXCEPT ![p] =
           [NoRes EXCEPT !.kind = "ok",
                         !.balance = updated[p].balance,
                         !.cashed_out = TRUE,
                         !.finished = TRUE]]
    /\ UNCHANGED << rounds, op, user, reqStake, stake, session, multiplier,
                    updated, newRound, auth_sessions, draw_r, draw_m >>

\* ----------------------------------------------------- storage and pool
\* a statement or the commit raises (connection lost, server error): the
\* exception leaves the handler with nothing committed
StorageFail(p) ==
    /\ pc[p] \in {"start", "selected", "locked", "updated", "inserted"}
    /\ pc' = [pc EXCEPT ![p] = "ret"]
    /\ res' = [res EXCEPT ![p] = Error("StorageFailure")]
    /\ UNCHANGED << sessions, rounds, lockHolder, op, user, reqStake, stake,
                    session, multiplier, updated, newRound, auth_sessions, draw_r, draw_m >>

\* the connection going back to the pool with its transaction left open
PutConn_KeepLock(p) ==
    /\ pc[p] = "ret"
    /\ lockHolder' = lockHolder
    /\ pc' = [pc EXCEPT ![p] = "idle"]
    /\ op' = [op EXCEPT ![p] = "none"]
    /\ user' = [user EXCEPT ![p] = 0]
    /\ reqStake' = [reqStake EXCEPT ![p] = 0]
    /\ stake' = [stake EXCEPT ![p] = 0]
    /\ session' = [session EXCEPT ![p] = NoRow]
    /\ multiplier' = [multiplier EXCEPT ![p] = 0]
    /\ updated' = [updated EXCEPT ![p] = NoRow]
    /\ newRound' = [newRound EXCEPT ![p] = NoRound]
    /\ res' = [res EXCEPT ![p] = NoRes]
    /\ UNCHANGED << sessions, rounds, auth_sessions, draw_r, draw_m >>

\* get_db's finally: pool.putconn(conn) rolls back whatever transaction is
\* still open, which drops its uncommitted writes and its row locks; the
\* response then leaves the server
PutConn(p) ==
    /\ pc[p] = "ret"
    /\ lockHolder' = Released(p)
    /\ pc' = [pc EXCEPT ![p] = "idle"]
    /\ op' = [op EXCEPT ![p] = "none"]
    /\ user' = [user EXCEPT ![p] = 0]
    /\ reqStake' = [reqStake EXCEPT ![p] = 0]
    /\ stake' = [stake EXCEPT ![p] = 0]
    /\ session' = [session EXCEPT ![p] = NoRow]
    /\ multiplier' = [multiplier EXCEPT ![p] = 0]
    /\ updated' = [updated EXCEPT ![p] = NoRow]
    /\ newRound' = [newRound EXCEPT ![p] = NoRound]
    /\ res' = [res EXCEPT ![p] = NoRes]
    /\ UNCHANGED << sessions, rounds, auth_sessions, draw_r, draw_m >>

Next ==
    \E p \in Procs :
        \/ InitSessionCall(p)
        \/ DropBallCall(p)
        \/ CashoutCall(p)
        \/ InitSelect(p)
        \/ InitInsert(p)
        \/ InitCommit(p)
        \/ DropLock(p)
        \/ DropUpdate(p)
        \/ DropInsert(p)
        \/ DropCommit(p)
        \/ CashLock(p)
        \/ CashUpdate(p)
        \/ CashCommit(p)
        \/ StorageFail(p)
        \/ PutConn(p)

Spec == Init /\ [][Next]_vars

\* ------------------------------------------------- the server scheduled
\* The requests of the logged-in users, every wager asking for more than
\* MAX_BET: the stake decides no lock, and the whole balance at stake reaches
\* every exit of drop_ball.
LiveStakeReqs == {100 * Unit}

\* rounds committed and wagers in flight: wagers are let in only while the
\* round bound leaves room for them, so that none waits on the bound
DropsAdmitted ==
    Len(rounds[1]) + Len(rounds[2])
    + Cardinality({q \in Procs : op[q] = "drop"
                                  /\ pc[q] \in {"start", "locked", "updated", "inserted"}})

NextLive ==
    \E p \in Procs :
        \/ \E tok \in auth_sessions : Enter(p, "init", tok, 0)
        \/ /\ DropsAdmitted < MaxRounds
           /\ \E tok \in auth_sessions, s \in LiveStakeReqs : Enter(p, "drop", tok, s)
        \/ \E tok \in auth_sessions : Enter(p, "cashout", tok, 0)
        \/ InitSelect(p)
        \/ InitInsert(p)
        \/ InitCommit(p)
        \/ DropLock(p)
        \/ DropUpdate(p)
        \/ DropInsert(p)
        \/ DropCommit(p)
        \/ CashLock(p)
        \/ CashUpdate(p)
        \/ CashCommit(p)
        \/ StorageFail(p)
        \/ PutConn(p)

\* a request thread that can take its next step takes it; a request waiting
\* for a row lock or for an uncommitted row of its user gets its turn
\* (PostgreSQL queues the waiters of a lock); storage failures and new
\* requests need not happen
Scheduling ==
    \A p \in Procs :
        /\ WF_vars(InitSelect(p)) /\ SF_vars(InitInsert(p)) /\ WF_vars(InitCommit(p))
        /\ SF_vars(DropLock(p)) /\ WF_vars(DropUpdate(p)) /\ WF_vars(DropInsert(p))
        /\ WF_vars(DropCommit(p))
        /\ SF_vars(CashLock(p)) /\ WF_vars(CashUpdate(p)) /\ WF_vars(CashCommit(p))
        /\ WF_vars(PutConn(p))

SpecLive == Init /\ [][NextLive]_vars /\ Scheduling

\* ------------------------------------------------------ every user in
\* both users have logged in; their requests as the scheduled server admits
\* them
InitTwo ==
    /\ sessions = [u \in Users |-> NoRow]
    /\ rounds = [u \in Users |-> << >>]
    /\ lockHolder = [u \in Users |-> 0]
    /\ pc = [p \in Procs |-> "idle"]
    /\ op = [p \in Procs |-> "none"]
    /\ user = [p \in Procs |-> 0]
    /\ reqStake = [p \in Procs |-> 0]
    /\ stake = [p \in Procs |-> 0]
    /\ session = [p \in Procs |-> NoRow]
    /\ multiplier = [p \in Procs |-> 0]
    /\ updated = [p \in Procs |-> NoRow]
    /\ newRound = [p \in Procs |-> NoRound]
    /\ res = [p \in Procs |-> NoRes]
    /\ auth_sessions = Users
    /\ draw_r = 0
    /\ draw_m = -1

SpecTwo == InitTwo /\ [][NextLive]_vars

\* ------------------------------------------------ pick_multiplier alone
\* r = random.random(), nothing else going on
InitDraw ==
    /\ sessions = [u \in Users |-> NoRow]
    /\ rounds = [u \in Users |-> << >>]
    /\ lockHolder = [u \in Users |-> 0]
    /\ pc = [p \in Procs |-> "idle"]
    /\ op = [p \in Procs |-> "none"]
    /\ user = [p \in Procs |-> 0]
    /\ reqStake = [p \in Procs |-> 0]
    /\ stake = [p \in Procs |-> 0]
    /\ session = [p \in Procs |-> NoRow]
    /\ multiplier = [p \in Procs |-> 0]
    /\ updated = [p \in Procs |-> NoRow]
    /\ newRound = [p \in Procs |-> NoRound]
    /\ res = [p \in Procs |-> NoRes]
    /\ auth_sessions = {}
    /\ draw_r \in RValues
    /\ draw_m = -1

\* the walk over the table and its return value
PickMultiplier ==
    /\ draw_m = -1
    /\ draw_m' = pick_multiplier(draw_r)
    /\ UNCHANGED << sessions, rounds, lockHolder, pc, op, user, reqStake, stake,
                    session, multiplier, updated, newRound, res, auth_sessions,
                    draw_r >>

NextDraw == PickMultiplier

SpecDraw == InitDraw /\ [][NextDraw]_vars

\* ================================================================ claims
\* a request that has its response and has not yet given back its connection
Returned(p, o) == pc[p] = "ret" /\ op[p] = o /\ user[p] \in Users

\* a session row that drop_ball may play on
Active(s) == s.exists /\ ~s.finished /\ ~s.cashed_out

\* the balance after replaying a sequence of rounds from INITIAL_BALANCE
RECURSIVE ReplayBalance(_)
ReplayBalance(rs) ==
    IF rs = << >> THEN INITIAL_BALANCE
    ELSE LET r == rs[Len(rs)]
         IN  ReplayBalance(SubSeq(rs, 1, Len(rs) - 1)) - r.stake + r.stake * r.multiplier

\* C1: concurrent wagers of one user are serialized by the row lock. A wager
\* that holds the lock works on the committed row (nobody changed it since the
\* lock was taken); a wager that read an Active session and met no storage
\* failure succeeds exactly when the balance it read under the lock is at
\* least its stake and fails with InsufficientBalance exactly otherwise; and
\* the committed balance and balls_played equal the replay of the committed
\* rounds one after another.
C1_WagersSerialized ==
    /\ \A p \in Procs :
          op[p] = "drop" /\ pc[p] \in {"locked", "updated", "inserted"}
          => session[p] = sessions[user[p]]
    /\ \A p \in Procs :
          Returned(p, "drop") /\ Active(session[p]) /\ res[p].kind # "StorageFailure"
          => /\ res[p].kind = "ok" <=> session[p].balance >= stake[p]
             /\ res[p].kind = "InsufficientBalance" <=> session[p].balance < stake[p]
    /\ \A u \in Users :
          sessions[u].exists
          => /\ sessions[u].balance = ReplayBalance(rounds[u])
             /\ sessions[u].balls_played = Len(rounds[u])

\* two wagers in flight together: the first took the whole balance and lost,
\* the second read the balance the first left and was refused
C1_Witness ==
    \E p, q \in Procs :
        /\ p # q /\ user[p] = user[q]
        /\ Returned(p, "drop") /\ res[p].kind = "ok"
        /\ Returned(q, "drop") /\ res[q].kind = "InsufficientBalance"
        /\ session[q].balance = res[p].balance
        /\ stake[q] <= session[p].balance

\* C2 (as claimed): every Initialize that is not hit by a storage outage
\* succeeds, also when it lost the race to create the session.
C2_InitRaceSucceeds ==
    \A p \in Procs :
        Returned(p, "init") => res[p].kind \in {"ok", "StorageFailure"}

\* C3: terminal is absorbing. No step changes the row or the rounds of a
\* session whose finished flag is set.
C3_TerminalAbsorbing ==
    [][\A u \in Users :
          sessions[u].exists /\ sessions[u].finished
          => sessions'[u] = sessions[u] /\ rounds'[u] = rounds[u]]_vars

\* a session that played a round and was cashed out, and a wager refused on it
C3_Witness ==
    \E p, q \in Procs :
        /\ Returned(q, "cashout") /\ res[q].kind = "ok" /\ ~session[q].cashed_out
        /\ Returned(p, "drop") /\ res[p].kind = "SessionTerminal"
        /\ user[p] = user[q] /\ sessions[user[p]].finished
        /\ sessions[user[p]].balls_played = 1

\* C4: all-or-nothing. The committed tables change only in the step that
\* commits a request which then answers ok; a round is added exactly when the
\* row's balls_played changes; and a request that failed while holding the
\* row lock leaves the row and the number of rounds as it read them.
C4_AllOrNothing ==
    [][/\ (sessions' # sessions \/ rounds' # rounds)
          => \E p \in Procs : pc[p] # "ret" /\ pc'[p] = "ret" /\ res'[p].kind = "ok"
       /\ \A u \in Users :
            /\ rounds'[u] # rounds[u]
               <=> sessions'[u].balls_played # sessions[u].balls_played
            /\ Len(rounds'[u]) = sessions'[u].balls_played
       /\ \A p \in Procs :
            pc'[p] = "ret" /\ user'[p] \in Users /\ res'[p].kind # "ok"
            /\ lockHolder'[user'[p]] = p
            => /\ sessions'[user'[p]] = session'[p]
               /\ Len(rounds'[user'[p]]) = session'[p].balls_played]_vars

\* a wager that failed after its UPDATE and before its INSERT
C4_Witness ==
    \E p \in Procs :
        /\ Returned(p, "drop") /\ res[p].kind = "StorageFailure"
        /\ updated[p].exists /\ ~newRound[p].exists
        /\ updated[p] # sessions[user[p]]
        /\ sessions[user[p]] = session[p]

\* C5: a successful wager answers balance_before - stake + stake * multiplier
\* and balls_played + 1, where balance_before is the committed balance, and
\* these are the values its commit installs.
C5_WagerArithmetic ==
    /\ \A p \in Procs :
          Returned(p, "drop") /\ res[p].kind = "ok"
          => /\ res[p].balance
                  = session[p].balance - res[p].stake + res[p].stake * res[p].multiplier
             /\ res[p].balls_played = session[p].balls_played + 1
             /\ res[p].stake = stake[p]
    /\ \A p \in Procs :
          op[p] = "drop" /\ pc[p] = "inserted"
          => /\ updated[p].balance
                  = sessions[user[p]].balance - stake[p] + stake[p] * multiplier[p]
             /\ updated[p].balls_played = sessions[user[p]].balls_played + 1
             /\ newRound[p].stake = stake[p]
             /\ newRound[p].multiplier = multiplier[p]

\* a wager of 3 on a balance of 5 that drew the multiplier 2 and answered 8
C5_Witness ==
    \E p \in Procs :
        /\ Returned(p, "drop") /\ res[p].kind = "ok"
        /\ res[p].multiplier = 2 /\ res[p].stake = 3 * Unit
        /\ session[p].balance = 5 * Unit /\ res[p].balance = 8 * Unit


\* the balance, count and flags of a response are those of a row
SameFields(r, row) ==
    /\ r.balance = row.balance /\ r.balls_played = row.balls_played
    /\ r.cashed_out = row.cashed_out /\ r.finished = row.finished

\* request p passes the step that fetches its user's session row
Fetches(p, o) ==
    /\ pc[p] = "start" /\ pc'[p] # "start" /\ op[p] = o
    /\ res'[p].kind # "StorageFailure"

\* C6: once the committed session is cashed out, every wager that fetches it
\* fails with SessionTerminal and every cash-out that fetches it succeeds with
\* the session's balance, both without changing the tables; a successful
\* cash-out leaves the session cashed out with the balance it answered, and
\* two cash-outs of one session answer the same balance.
C6_AfterCashOut ==
    [][/\ \A p \in Procs :
            (Fetches(p, "drop") \/ Fetches(p, "cashout")) /\ sessions[user[p]].cashed_out
            => /\ pc'[p] = "ret"
               /\ op[p] = "drop" => res'[p].kind = "SessionTerminal"
               /\ op[p] = "cashout"
                  => /\ res'[p].kind = "ok" /\ res'[p].cashed_out
                     /\ res'[p].balance = sessions[user[p]].balance
               /\ sessions' = sessions /\ rounds' = rounds
       /\ \A p \in Procs :
            pc'[p] = "ret" /\ op'[p] = "cashout" /\ res'[p].kind = "ok"
            => /\ sessions'[user'[p]].cashed_out
               /\ sessions'[user'[p]].balance = res'[p].balance
               /\ \A q \in Procs :
                    pc'[q] = "ret" /\ op'[q] = "cashout" /\ res'[q].kind = "ok"
                    /\ user'[q] = user'[p]
                    => res'[q].balance = res'[p].balance]_vars

\* the cash-out that ended a played session and a later wager refused on it
C6_Witness ==
    \E p, q \in Procs :
        /\ Returned(p, "cashout") /\ res[p].kind = "ok" /\ ~session[p].cashed_out
        /\ Returned(q, "drop") /\ res[q].kind = "SessionTerminal"
        /\ user[p] = user[q] /\ session[q].cashed_out
        /\ session[q].balance = res[p].balance /\ res[p].balance # INITIAL_BALANCE

\* C7: Initialize is idempotent. A step of an Initialize whose user has a
\* session changes neither the row nor the rounds; a successful Initialize
\* answers the row it found or, when it found none, the fresh session; and two
\* successful Initialize calls of an untouched session answer the same.
C7_InitializeIdempotent ==
    [][/\ \A p \in Procs :
            op[p] = "init" /\ pc'[p] # pc[p] /\ user[p] \in Users
            /\ sessions[user[p]].exists
            => sessions' = sessions /\ rounds' = rounds
       /\ \A p \in Procs :
            pc'[p] = "ret" /\ op'[p] = "init" /\ res'[p].kind = "ok"
            => /\ session'[p].exists => SameFields(res'[p], session'[p])
               /\ ~session'[p].exists
                  => /\ res'[p].balance = INITIAL_BALANCE /\ res'[p].balls_played = 0
                     /\ ~res'[p].cashed_out /\ ~res'[p].finished
               /\ \A q \in Procs :
                    /\ pc'[q] = "ret" /\ op'[q] = "init" /\ res'[q].kind = "ok"
                    /\ user'[q] = user'[p]
                    /\ rounds'[user'[p]] = << >> /\ ~sessions'[user'[p]].cashed_out
                    => res'[q] = res'[p]]_vars

\* the Initialize that created the session and a second one that found it,
\* both answering the fresh session
C7_Witness ==
    \E p, q \in Procs :
        /\ Returned(p, "init") /\ res[p].kind = "ok" /\ ~session[p].exists
        /\ Returned(q, "init") /\ res[q].kind = "ok" /\ session[q].exists
        /\ user[p] = user[q] /\ res[p] = res[q]
        /\ sessions[user[p]] = NewSessionRow

\* C8: without a session row, a wager or cash-out that fetches the row fails
\* with SessionNotFound, takes no lock and changes nothing; a session row is
\* only ever created by the commit of an Initialize, and a user without a
\* session has no rounds.
C8_NoSessionNotFound ==
    [][/\ \A p \in Procs :
            (Fetches(p, "drop") \/ Fetches(p, "cashout")) /\ ~sessions[user[p]].exists
            => /\ pc'[p] = "ret" /\ res'[p].kind = "SessionNotFound"
               /\ lockHolder' = lockHolder
               /\ sessions' = sessions /\ rounds' = rounds
       /\ \A u \in Users :
            /\ ~sessions[u].exists /\ sessions'[u].exists
               => \E p \in Procs : op[p] = "init" /\ pc[p] = "inserted" /\ pc'[p] = "ret"
            /\ ~sessions'[u].exists => rounds'[u] = << >>]_vars

\* a wager and a cash-out both refused for a user who has no session
C8_Witness ==
    \E p, q \in Procs :
        /\ Returned(p, "drop") /\ res[p].kind = "SessionNotFound"
        /\ Returned(q, "cashout") /\ res[q].kind = "SessionNotFound"
        /\ user[p] = user[q] /\ ~sessions[user[p]].exists

\* C9: a wager that read an Active session is refused with
\* InsufficientBalance exactly when its clamped stake is greater than the
\* balance it read (an equal stake is played), and while the refused request
\* still holds its connection the row is the one it read, it wrote nothing
\* and the rounds are as many as before.
C9_InsufficientBalance ==
    \A p \in Procs :
        op[p] = "drop" /\ pc[p] \in {"locked", "updated", "inserted", "ret"}
        /\ Active(session[p])
        => /\ stake[p] > session[p].balance
              <=> pc[p] = "ret" /\ res[p].kind = "InsufficientBalance"
           /\ res[p].kind = "InsufficientBalance"
              => /\ sessions[user[p]] = session[p]
                 /\ Len(rounds[user[p]]) = session[p].balls_played
                 /\ updated[p] = NoRow /\ newRound[p] = NoRound

\* a wager of the whole balance was played, and the next one was refused
\* for a stake above the balance that was left
C9_Witness ==
    \E p, q \in Procs :
        /\ Returned(p, "drop") /\ res[p].kind = "ok"
        /\ stake[p] = session[p].balance
        /\ Returned(q, "drop") /\ res[q].kind = "InsufficientBalance"
        /\ user[p] = user[q] /\ stake[q] > session[q].balance

\* C10: the stake of a wager is the requested stake clamped into
\* [MIN_BET, MAX_BET]; it is the stake answered and the stake of the round,
\* and every round's stake lies in [MIN_BET, MAX_BET].
C10_StakeClamped ==
    /\ \A p \in Procs :
          op[p] = "drop"
          => /\ reqStake[p] < MIN_BET => stake[p] = MIN_BET
             /\ reqStake[p] > MAX_BET => stake[p] = MAX_BET
             /\ reqStake[p] >= MIN_BET /\ reqStake[p] <= MAX_BET => stake[p] = reqStake[p]
             /\ newRound[p].exists => newRound[p].stake = stake[p]
             /\ pc[p] = "ret" /\ res[p].kind = "ok"
                => /\ res[p].stake = stake[p]
                   /\ res[p].balance
                        = session[p].balance - stake[p] + stake[p] * res[p].multiplier
    /\ \A u \in Users : \A i \in 1..Len(rounds[u]) :
          /\ rounds[u][i].stake >= MIN_BET /\ rounds[u][i].stake <= MAX_BET
          /\ rounds[u][i].win_amount = rounds[u][i].stake * rounds[u][i].multiplier

\* a stake of half a unit played as MIN_BET, then a stake of a hundred taken
\* as MAX_BET
C10_Witness ==
    \E p, q \in Procs :
        /\ Returned(p, "drop") /\ res[p].kind = "ok"
        /\ reqStake[p] < MIN_BET /\ res[p].stake = MIN_BET
        /\ rounds[user[p]][1].stake = MIN_BET
        /\ op[q] = "drop" /\ pc[q] = "ret" /\ reqStake[q] > MAX_BET /\ stake[q] = MAX_BET


\* C11: every successful cash-out response, the one that made the transition
\* and every repeat on a session already cashed out, says cashed_out = true
\* and finished = true.
C11_CashOutReportsTerminal ==
    \A p \in Procs :
        Returned(p, "cashout") /\ res[p].kind = "ok"
        => res[p].cashed_out /\ res[p].finished

\* a repeated cash-out, answered from the row it found cashed out, while the
\* cash-out that made the transition still holds its connection
C11_Witness ==
    \E p, q \in Procs :
        /\ Returned(p, "cashout") /\ res[p].kind = "ok" /\ ~session[p].cashed_out
        /\ Returned(q, "cashout") /\ res[q].kind = "ok" /\ session[q].cashed_out
        /\ user[p] = user[q] /\ res[q].finished

\* C12: the balance of every session is never negative, neither committed
\* nor in a row version a request has written and not yet committed.
C12_BalanceNonNegative ==
    /\ \A u \in Users : sessions[u].balance >= 0
    /\ \A p \in Procs : updated[p].balance >= 0 /\ res[p].balance >= 0

\* a session played down to exactly zero
C12_Witness ==
    \E u \in Users :
        /\ sessions[u].exists /\ sessions[u].balance = 0
        /\ sessions[u].balls_played >= 1

\* C14: cashed_out and finished are equal in every committed row, in every
\* row version written and in every response that carries both, and they are
\* set only by the commit of a cash-out.
C14_FlagsSetTogether ==
    [][/\ \A u \in Users : sessions'[u].cashed_out = sessions'[u].finished
       /\ \A p \in Procs :
            /\ updated'[p].cashed_out = updated'[p].finished
            /\ res'[p].cashed_out = res'[p].finished
       /\ \A u \in Users :
            (sessions'[u].cashed_out /\ ~sessions[u].cashed_out)
            \/ (sessions'[u].finished /\ ~sessions[u].finished)
            => \E p \in Procs :
                 /\ op[p] = "cashout" /\ user[p] = u
                 /\ pc[p] = "updated" /\ pc'[p] = "ret"]_vars

\* a session cashed out after a round, both flags set
C14_Witness ==
    \E u \in Users :
        /\ sessions[u].cashed_out /\ sessions[u].finished
        /\ sessions[u].balls_played >= 1


\* the cumulative probability of the first i table entries
RECURSIVE Cumulative(_)
Cumulative(i) == IF i = 0 THEN 0 ELSE Cumulative(i - 1) + MULTIPLIER_DISTRIBUTION[i].p

\* the table entries whose cumulative probability meets or exceeds r
Meeting(r) == {i \in 1..Len(MULTIPLIER_DISTRIBUTION) : Cumulative(i) >= r}

\* C13: pick_multiplier returns the multiplier of the first table entry, in
\* source order, whose cumulative probability meets or exceeds the sample,
\* and the last entry's 1000 when no entry does; the result is one of
\* 0, 1, 2, 5, 10, 25, 50, 100, 1000, and the probabilities sum to 1.
C13_DrawFirstMeeting ==
    /\ Cumulative(Len(MULTIPLIER_DISTRIBUTION)) = 100000
    /\ draw_m # -1
       => /\ draw_m \in {0, 1, 2, 5, 10, 25, 50, 100, 1000}
          /\ IF Meeting(draw_r) = {}
             THEN draw_m = 1000
             ELSE \E i \in Meeting(draw_r) :
                    /\ \A j \in Meeting(draw_r) : i <= j
                    /\ draw_m = MULTIPLIER_DISTRIBUTION[i].m

\* a sample in the last 1/10000 of the range, which draws 1000
C13_Witness == draw_m = 1000 /\ draw_r > 99990


\* a wager that passed its checks and has not yet committed or failed
WagerInProgress(p) == op[p] = "drop" /\ pc[p] \in {"locked", "updated", "inserted"}

\* C15: a wager and a cash-out of one user come out in one of the two serial
\* orders. While a wager is in progress it holds the row lock, the session is
\* not cashed out and a cash-out of the same user waits or has failed; a
\* successful cash-out answers the balance of the rounds committed before it
\* (the post-wager balance when the wager came first), which is the balance
\* of the session from then on; a wager coming after it is refused.
C15_WagerCashOutSerial ==
    [][/\ \A p \in Procs :
            WagerInProgress(p)'
            => /\ lockHolder'[user'[p]] = p
               /\ ~sessions'[user'[p]].cashed_out
               /\ \A q \in Procs :
                    op'[q] = "cashout" /\ user'[q] = user'[p]
                    => \/ pc'[q] = "start"
                       \/ pc'[q] = "ret" /\ res'[q].kind # "ok"
       /\ \A q \in Procs :
            pc'[q] = "ret" /\ op'[q] = "cashout" /\ res'[q].kind = "ok"
            => /\ sessions'[user'[q]].cashed_out
               /\ res'[q].balance = sessions'[user'[q]].balance
               /\ res'[q].balance = ReplayBalance(rounds'[user'[q]])
       /\ \A u \in Users :
            sessions[u].cashed_out
            => /\ sessions'[u].balance = sessions[u].balance
               /\ rounds'[u] = rounds[u]
       /\ \A p \in Procs :
            Fetches(p, "drop") /\ sessions[user[p]].cashed_out
            => res'[p].kind = "SessionTerminal"]_vars

\* both in flight together, the wager committed first: the cash-out answers
\* the balance the wager answered
C15_Witness ==
    \E p, q \in Procs :
        /\ Returned(p, "drop") /\ res[p].kind = "ok"
        /\ Returned(q, "cashout") /\ res[q].kind = "ok" /\ ~session[q].cashed_out
        /\ user[p] = user[q]
        /\ session[q].balls_played = res[p].balls_played
        /\ res[q].balance = res[p].balance /\ res[p].balance # INITIAL_BALANCE


\* C16: the row lock is released on every exit path. A row lock is only ever
\* held by a request of that user that is past its fetch and has not given
\* back its connection; every request waiting to fetch its row gets its
\* response, and every request with a response gives back its connection
\* and holds no lock afterwards.
C16_LockReleased ==
    /\ [](\A u \in Users :
            lockHolder[u] # 0
            => /\ user[lockHolder[u]] = u
               /\ pc[lockHolder[u]] \in {"locked", "updated", "inserted", "ret"})
    /\ \A p \in Procs : (pc[p] = "start") ~> (pc[p] = "ret")
    /\ \A p \in Procs :
         (pc[p] = "ret") ~> (pc[p] = "idle" /\ \A u \in Users : lockHolder[u] # p)

\* a request waits for the row lock while the holder has already failed
\* with InsufficientBalance and has not yet given back its connection
C16_Witness ==
    \E p, q \in Procs :
        /\ p # q /\ user[p] = user[q]
        /\ pc[q] = "start" /\ op[q] \in {"drop", "cashout"}
        /\ pc[p] = "ret" /\ res[p].kind = "InsufficientBalance"
        /\ lockHolder[user[p]] = p


\* C17: drop_ball checks SessionNotFound, then SessionTerminal, then
\* InsufficientBalance. A wager that fetched no row answers SessionNotFound;
\* one that fetched a finished or cashed-out row answers SessionTerminal
\* whatever its stake and the balance; InsufficientBalance is only answered
\* for a row that is Active.
C17_FailureOrder ==
    \A p \in Procs :
        Returned(p, "drop")
        => /\ res[p].kind = "SessionNotFound" => ~session[p].exists
           /\ session[p].exists /\ (session[p].finished \/ session[p].cashed_out)
              => res[p].kind = "SessionTerminal"
           /\ res[p].kind = "SessionTerminal"
              => session[p].exists /\ (session[p].finished \/ session[p].cashed_out)
           /\ res[p].kind = "InsufficientBalance"
              => Active(session[p]) /\ session[p].balance < stake[p]

\* a wager on a cashed-out session whose stake is above the balance: it is
\* refused as terminal, not for the balance
C17_Witness ==
    \E p \in Procs :
        /\ Returned(p, "drop") /\ res[p].kind = "SessionTerminal"
        /\ session[p].cashed_out /\ stake[p] > session[p].balance


\* a session that exists, is not terminal and cannot cover the smallest stake
Broke(s) == Active(s) /\ s.balance < MIN_BET

\* C18: running out of balance does not finish a session. A session only
\* becomes finished or cashed out by the commit of a cash-out; on an Active
\* session whose balance is below MIN_BET every wager that fetches the row is
\* refused with InsufficientBalance, whatever stake it asked for, and changes
\* nothing; a cash-out that fetches it goes on, and when it commits it
\* answers ok and leaves the session terminal.
C18_BrokeStaysActive ==
    [][/\ \A u \in Users :
            (sessions'[u].finished /\ ~sessions[u].finished)
            \/ (sessions'[u].cashed_out /\ ~sessions[u].cashed_out)
            => \E p \in Procs :
                 /\ op[p] = "cashout" /\ user[p] = u
                 /\ pc[p] = "updated" /\ pc'[p] = "ret"
       /\ \A u \in Users :
            Broke(sessions[u]) /\ sessions'[u] # sessions[u]
            => /\ sessions'[u] = [sessions[u] EXCEPT !.cashed_out = TRUE,
                                                      !.finished = TRUE]
               /\ rounds'[u] = rounds[u]
       /\ \A p \in Procs :
            Fetches(p, "drop") /\ Broke(sessions[user[p]])
            => /\ pc'[p] = "ret" /\ res'[p].kind = "InsufficientBalance"
               /\ sessions' = sessions /\ rounds' = rounds
       /\ \A p \in Procs :
            Fetches(p, "cashout") /\ Broke(sessions[user[p]])
            => pc'[p] = "locked" /\ lockHolder'[user[p]] = p
       /\ \A p \in Procs :
            /\ op[p] = "cashout" /\ pc[p] = "updated" /\ pc'[p] = "ret"
            /\ res'[p].kind # "StorageFailure"
            => /\ res'[p].kind = "ok"
               /\ res'[p].balance = sessions[user[p]].balance
               /\ sessions'[user[p]].finished /\ sessions'[user[p]].cashed_out]_vars

\* a session played down to zero: a wager of the smallest stake was refused
\* on it, and the cash-out of it succeeded with balance zero
C18_Witness ==
    \E p \in Procs :
        /\ Returned(p, "cashout") /\ res[p].kind = "ok"
        /\ Broke(session[p]) /\ res[p].balance = 0
        /\ sessions[user[p]].finished /\ sessions[user[p]].balls_played >= 1


\* the request p takes this step
Steps(p) == pc'[p] # pc[p]

\* the user the stepping request acts for
Actor(p) == IF pc[p] = "idle" THEN user'[p] ELSE user[p]

\* C19: the operations of one user neither read, change nor wait on the
\* session of another. A step of a request of user A leaves the row, the
\* rounds and the row lock of every other user as they were, and a row the
\* step fetches is A's own; a wager or cash-out about to fetch its row can do
\* so whenever the lock of its own user's row is free, and an Initialize
\* about to insert can do so unless a request of the same user has an
\* uncommitted insert, whatever locks other users' requests hold.
C19_UsersIndependent ==
    /\ [][\A p \in Procs :
            Steps(p)
            => /\ \A u \in Users \ {Actor(p)} :
                    /\ sessions'[u] = sessions[u]
                    /\ rounds'[u] = rounds[u]
                    /\ lockHolder'[u] = lockHolder[u]
               /\ session'[p] # session[p]
                  => session'[p] = NoRow \/ session'[p] = sessions[Actor(p)]]_vars
    /\ [](\A p \in Procs :
            /\ pc[p] = "start" /\ op[p] = "drop" /\ lockHolder[user[p]] = 0
               => ENABLED DropLock(p)
            /\ pc[p] = "start" /\ op[p] = "cashout" /\ lockHolder[user[p]] = 0
               => ENABLED CashLock(p)
            /\ pc[p] = "start" /\ op[p] = "init" => ENABLED InitSelect(p)
            /\ /\ pc[p] = "selected" /\ op[p] = "init"
               /\ \A q \in Procs \ {p} : user[q] = user[p] => pc[q] # "inserted"
               => ENABLED InitInsert(p))

\* user 1 holds the lock of its row in the middle of a wager while a cash-out
\* of user 2 has fetched and locked the different row of user 2
C19_Witness ==
    \E p, q \in Procs :
        /\ user[p] = 1 /\ user[q] = 2
        /\ op[p] = "drop" /\ pc[p] = "updated" /\ lockHolder[1] = p
        /\ op[q] = "cashout" /\ pc[q] = "locked" /\ lockHolder[2] = q
        /\ session[q] = sessions[2] /\ sessions[2] # sessions[1]


\* the sum of win_amount - stake over the first n rounds of a history
RECURSIVE NetWin(_, _)
NetWin(rs, n) ==
    IF n = 0 THEN 0 ELSE NetWin(rs, n - 1) + (rs[n].win_amount - rs[n].stake)

\* C20: the rounds are the ledger of the session. In every committed state a
\* user without a session has no rounds, and for a session balls_played is
\* the number of its rounds, every round is a written record whose
\* win_amount is its stake times its multiplier, and the balance is
\* INITIAL_BALANCE plus the sum of win_amount - stake over its rounds.
C20_RoundLedger ==
    \A u \in Users :
        /\ ~sessions[u].exists => rounds[u] = << >>
        /\ sessions[u].exists
           => /\ sessions[u].balls_played = Len(rounds[u])
              /\ \A i \in 1 .. Len(rounds[u]) :
                    /\ rounds[u][i].exists
                    /\ rounds[u][i].win_amount
                          = rounds[u][i].stake * rounds[u][i].multiplier
              /\ sessions[u].balance
                    = INITIAL_BALANCE + NetWin(rounds[u], Len(rounds[u]))

\* a session with a won and a lost round, requested with stakes outside the
\* limits, its balance away from INITIAL_BALANCE
C20_Witness ==
    \E u \in Users :
        /\ sessions[u].exists /\ Len(rounds[u]) = 2
        /\ rounds[u][1].win_amount > rounds[u][1].stake
        /\ rounds[u][1].stake = MIN_BET
        /\ rounds[u][2].win_amount = 0 /\ rounds[u][2].stake = MAX_BET
        /\ sessions[u].balance = INITIAL_BALANCE + MIN_BET - MAX_BET

====
